---- MODULE Spec2Model ----
(***************************************************************************)
(* Model of the helper functions of src/lib.rs: hex codec, byte reversal,  *)
(* satoshi parsing, script classification, pushdata slicing, opcode        *)
(* lookup and fee subtraction.                                             *)
(*                                                                         *)
(* Representation.  A byte is a number in 0..255.  A &str is the sequence  *)
(* of its bytes (ASCII codes).  A u32 is two 16-bit limbs and a u64 four   *)
(* 16-bit limbs, least significant limb first, because the values of       *)
(* these types exceed the range of the model checker's integers; all limb  *)
(* arithmetic keeps the full 32 / 64 bit width.                            *)
(*                                                                         *)
(* The functions are pure, so the state machine is a caller holding one    *)
(* value: every action applies one function of the library to the value    *)
(* the caller holds, records the call, and keeps the returned bytes or     *)
(* text as the caller's next value.                                        *)
(***************************************************************************)
EXTENDS Integers, Sequences, FiniteSets

VARIABLES value, last, given, calls

vars == <<value, last, given, calls>>

\* ------------------------------------------------------------- bounds

\* longest byte sequence handed to the library
MaxLen == 4

\* longest hex / decimal text handed to the library
MaxStrLen == 3

\* number of consecutive apply_fee calls on one balance
MaxFeeCalls == 3

\* ------------------------------------------------------------- results

Ok(v) == [tag |-> "Ok", val |-> v]

Err(e) == [tag |-> "Err", err |-> e]

Panic(m) == [tag |-> "Panic", msg |-> m]

NoCall == [fn |-> "none", arg |-> <<>>, ret |-> Ok(<<>>)]

Call(f, a, r) == [fn |-> f, arg |-> a, ret |-> r]

\* sequences over S of length at most n
RECURSIVE SeqsUpTo(_, _)
SeqsUpTo(S, n) ==
    IF n = 0 THEN {<<>>}
    ELSE LET shorter == SeqsUpTo(S, n - 1)
         IN  shorter \cup {Append(s, x) : s \in {t \in shorter : Len(t) = n - 1}, x \in S}

MinOf(S) == CHOOSE x \in S : \A y \in S : x <= y

\* ------------------------------------------------------------- hex crate

\* hex::encode's digit table "0123456789abcdef"
HEX_CHARS_LOWER == <<48, 49, 50, 51, 52, 53, 54, 55, 56, 57, 97, 98, 99, 100, 101, 102>>

\* hex's upper-case digit table "0123456789ABCDEF"
HEX_CHARS_UPPER == <<48, 49, 50, 51, 52, 53, 54, 55, 56, 57, 65, 66, 67, 68, 69, 70>>

\* hex::encode: two digits per byte, high nibble first
RECURSIVE encode(_)
encode(bytes) ==
    IF bytes = <<>> THEN <<>>
    ELSE <<HEX_CHARS_LOWER[(Head(bytes) \div 16) + 1],
           HEX_CHARS_LOWER[(Head(bytes) % 16) + 1]>> \o encode(Tail(bytes))

\* hex's val(c, idx): the value of one hex digit, -1 for an invalid character
val(c) ==
    IF c \in 65..70 THEN c - 65 + 10
    ELSE IF c \in 97..102 THEN c - 97 + 10
    ELSE IF c \in 48..57 THEN c - 48
    ELSE -1

\* hex::decode: odd length is rejected first, then the first invalid character
decode(hex) ==
    IF Len(hex) % 2 # 0 THEN Err([kind |-> "OddLength"])
    ELSE LET bad == {i \in 1..Len(hex) : val(hex[i]) = -1}
         IN  IF bad # {}
             THEN Err([kind |-> "InvalidHexCharacter",
                       c |-> hex[MinOf(bad)], index |-> MinOf(bad) - 1])
             ELSE Ok([k \in 1..(Len(hex) \div 2) |->
                        val(hex[2 * k - 1]) * 16 + val(hex[2 * k])])

\* FromHexError's Display, as the parts of the message
to_string(e) ==
    IF e.kind = "OddLength" THEN <<"Odd number of digits">>
    ELSE <<"Invalid character ", e.c, " at position ", e.index>>

\* ------------------------------------------------------------- lib.rs

\* a slip: decode(hex_str).unwrap_or_default() swallows the decode error
decode_hex_swallow(hex_str) ==
    LET r == decode(hex_str)
    IN  IF r.tag = "Ok" THEN r ELSE Ok(<<>>)

decode_hex(hex_str) ==
    LET r == decode(hex_str)
    IN  IF r.tag = "Ok" THEN r ELSE Err(to_string(r.err))

\* a slip: the bytes are collected without .rev()
to_big_endian_no_rev(bytes) == bytes

\* bytes.iter().rev().cloned().collect(): take from the back, push to the new Vec
RECURSIVE to_big_endian(_)
to_big_endian(bytes) ==
    IF bytes = <<>> THEN <<>>
    ELSE <<bytes[Len(bytes)]>> \o to_big_endian(SubSeq(bytes, 1, Len(bytes) - 1))

\* a slip: each byte formatted with {:x}, which drops a leading zero digit
RECURSIVE bytes_to_hex_unpadded(_)
bytes_to_hex_unpadded(bytes) ==
    IF bytes = <<>> THEN <<>>
    ELSE (IF Head(bytes) < 16 THEN <<>> ELSE <<HEX_CHARS_LOWER[(Head(bytes) \div 16) + 1]>>)
             \o <<HEX_CHARS_LOWER[(Head(bytes) % 16) + 1]>>
             \o bytes_to_hex_unpadded(Tail(bytes))

\* a slip: hex::encode_upper in place of hex::encode
RECURSIVE bytes_to_hex_upper(_)
bytes_to_hex_upper(bytes) ==
    IF bytes = <<>> THEN <<>>
    ELSE <<HEX_CHARS_UPPER[(Head(bytes) \div 16) + 1],
           HEX_CHARS_UPPER[(Head(bytes) % 16) + 1]>> \o bytes_to_hex_upper(Tail(bytes))

bytes_to_hex(bytes) == encode(bytes)

\* a slip: to_be_bytes in place of to_le_bytes
swap_endian_u32_be(num) == <<num[2] \div 256, num[2] % 256, num[1] \div 256, num[1] % 256>>

\* u32::to_le_bytes on the limbs <<low 16 bits, high 16 bits>>
to_le_bytes(num) == <<num[1] % 256, num[1] \div 256, num[2] % 256, num[2] \div 256>>

swap_endian_u32(num) == to_le_bytes(num)

\* ------------------------------------------------------------- u64 arithmetic

LimbBase == 2 ^ 16

U64Zero == <<0, 0, 0, 0>>

U64Max == <<LimbBase - 1, LimbBase - 1, LimbBase - 1, LimbBase - 1>>

\* a - b - borrow limb by limb; carry = 1 when the subtraction borrows out of bit 63
RECURSIVE sub_borrow(_, _, _)
sub_borrow(a, b, borrow) ==
    IF a = <<>> THEN [limbs |-> <<>>, carry |-> borrow]
    ELSE LET d    == Head(a) - Head(b) - borrow
             rest == sub_borrow(Tail(a), Tail(b), IF d < 0 THEN 1 ELSE 0)
         IN  [limbs |-> <<(d + LimbBase) % LimbBase>> \o rest.limbs, carry |-> rest.carry]

\* a * m + carry limb by limb (m and carry small); carry # 0 when the result needs more than 64 bits
RECURSIVE mul_carry(_, _, _)
mul_carry(a, m, carry) ==
    IF a = <<>> THEN [limbs |-> <<>>, carry |-> carry]
    ELSE LET t    == Head(a) * m + carry
             rest == mul_carry(Tail(a), m, t \div LimbBase)
         IN  [limbs |-> <<t % LimbBase>> \o rest.limbs, carry |-> rest.carry]

\* u64::saturating_sub
saturating_sub(a, b) ==
    LET r == sub_borrow(a, b, 0)
    IN  IF r.carry # 0 THEN U64Zero ELSE r.limbs

Some(v) == [tag |-> "Some", val |-> v]

None == [tag |-> "None"]

\* u64::checked_mul by a small factor: None on overflow
checked_mul(a, m) ==
    LET r == mul_carry(a, m, 0)
    IN  IF r.carry # 0 THEN None ELSE Some(r.limbs)

\* u64::checked_add of a small addend: None on overflow
checked_add(a, d) ==
    LET r == mul_carry(a, 1, d)
    IN  IF r.carry # 0 THEN None ELSE Some(r.limbs)

\* the digit loop of u64::from_str_radix(_, 10)
RECURSIVE from_digits(_, _)
from_digits(digits, result) ==
    IF digits = <<>> THEN Ok(result)
    ELSE IF Head(digits) \notin 48..57 THEN Err("InvalidDigit")
    ELSE LET mul == checked_mul(result, 10)
         IN  IF mul.tag = "None" THEN Err("PosOverflow")
             ELSE LET sum == checked_add(mul.val, Head(digits) - 48)
                  IN  IF sum.tag = "None" THEN Err("PosOverflow")
                      ELSE from_digits(Tail(digits), sum.val)

\* str::parse::<u64>: empty input, a lone sign, an optional leading '+', then digits
parse_u64(src) ==
    IF src = <<>> THEN Err("Empty")
    ELSE IF src[1] \in {43, 45} /\ Len(src) = 1 THEN Err("InvalidDigit")
    ELSE from_digits(IF src[1] = 43 THEN Tail(src) ELSE src, U64Zero)

\* a slip: the parse error is stringified instead of replaced by the fixed message
parse_satoshis_raw_error(input) == parse_u64(input)

parse_satoshis(input) ==
    LET r == parse_u64(input)
    IN  IF r.tag = "Ok" THEN r ELSE Err("Invalid satoshi amount")

\* <[u8]>::starts_with
starts_with(script, needle) ==
    /\ Len(needle) <= Len(script)
    /\ SubSeq(script, 1, Len(needle)) = needle

\* a slip: P2PKH additionally requires the full 25-byte script
classify_script_full_length(script) ==
    IF starts_with(script, <<118, 169, 20>>) /\ Len(script) = 25 THEN "P2PKH"
    ELSE IF starts_with(script, <<0, 20>>) THEN "P2WPKH"
    ELSE "Unknown"

classify_script(script) ==
    IF starts_with(script, <<118, 169, 20>>) THEN "P2PKH"
    ELSE IF starts_with(script, <<0, 20>>) THEN "P2WPKH"
    ELSE "Unknown"

\* a slip: script.get(2..).unwrap_or(&[]) never faults
read_pushdata_lenient(script) ==
    IF 2 > Len(script) THEN Ok(<<>>)
    ELSE Ok(SubSeq(script, 3, Len(script)))

\* &script[2..]: panics when 2 > script.len()
read_pushdata(script) ==
    IF 2 > Len(script) THEN Panic("range start index 2 out of range for slice")
    ELSE Ok(SubSeq(script, 3, Len(script)))

\* a slip: wrapping_sub in place of saturating_sub
apply_fee_wrapping(balance, fee) == sub_borrow(balance, fee, 0).limbs

apply_fee(balance, fee) == saturating_sub(balance, fee)

\* a slip: {:x} without the width, which drops a leading zero digit
fmt_x(byte) ==
    IF byte < 16 THEN <<HEX_CHARS_LOWER[byte + 1]>>
    ELSE <<HEX_CHARS_LOWER[(byte \div 16) + 1], HEX_CHARS_LOWER[(byte % 16) + 1]>>

\* format's {:02x}: lower-case hex digits, zero-padded on the left to width 2
fmt_02x(byte) ==
    LET digits == IF byte < 16 THEN <<HEX_CHARS_LOWER[byte + 1]>>
                  ELSE <<HEX_CHARS_LOWER[(byte \div 16) + 1], HEX_CHARS_LOWER[(byte % 16) + 1]>>
    IN  IF Len(digits) < 2 THEN <<48>> \o digits ELSE digits

\* the text "Invalid opcode: 0x"
InvalidOpcodePrefix ==
    <<73, 110, 118, 97, 108, 105, 100, 32, 111, 112, 99, 111, 100, 101, 58, 32, 48, 120>>

from_byte(byte) ==
    IF byte = 172 THEN Ok("OpChecksig")
    ELSE IF byte = 118 THEN Ok("OpDup")
    ELSE Err(InvalidOpcodePrefix \o fmt_02x(byte))

\* ------------------------------------------------------------- inputs

\* bytes that occur in the script prefixes, and one that does not
SampleBytes == {0, 20, 118, 169, 10}

ByteInputs ==
    SeqsUpTo(SampleBytes, MaxLen) \cup {<<b>> : b \in 0..255} \cup {<<0, b>> : b \in 0..255}
        \cup {<<118, 169, 20, 1, 2>>, <<81>>}

\* hex digits of both cases at the ends of their ranges, and a non-digit;
\* HexInputs adds every ASCII character in either place of a pair and the
\* two-byte UTF-8 character U+00E9
SampleHexChars == {48, 57, 97, 102, 65, 70, 103}

HexInputs ==
    SeqsUpTo(SampleHexChars, MaxStrLen)
        \cup {<<c, 48>> : c \in 0..127} \cup {<<49, c>> : c \in 0..127}
        \cup {<<195, 169>>, <<195, 169, 48>>, <<48, 49, 195, 169>>}

\* "0", "1", "9", "+", "-", "a", " "
SampleDecChars == {48, 49, 57, 43, 45, 97, 32}

\* "18446744073709551615" = 2^64 - 1
MaxDecimal == <<49, 56, 52, 52, 54, 55, 52, 52, 48, 55, 51, 55, 48, 57, 53, 53, 49, 54, 49, 53>>

DecimalInputs ==
    SeqsUpTo(SampleDecChars, MaxStrLen)
        \cup {<<49, 48, 48>>, MaxDecimal, <<43>> \o MaxDecimal, <<48, 48>> \o MaxDecimal,
              <<45>> \o MaxDecimal, MaxDecimal \o <<48>>,
              SubSeq(MaxDecimal, 1, 19) \o <<54>>, SubSeq(MaxDecimal, 1, 19) \o <<52>>,
              <<50>> \o Tail(MaxDecimal), SubSeq(MaxDecimal, 1, 19),
              <<49, 56, 52, 52, 55>> \o SubSeq(MaxDecimal, 6, 20)}

SampleLimbs == {0, 1, 255, 256, 4660, 43981, LimbBase - 1}

U32Inputs == {<<lo, hi>> : lo \in SampleLimbs, hi \in SampleLimbs}

\* 0, 50, 100, 2^16, 2^32 + 5, 2^64 - 1
Amounts ==
    {U64Zero, <<50, 0, 0, 0>>, <<100, 0, 0, 0>>, <<0, 1, 0, 0>>, <<5, 0, 1, 0>>, U64Max}

\* ------------------------------------------------------------- state machine

Running == last.ret.tag # "Panic"

Init ==
    /\ \/ \E b \in ByteInputs : value = [kind |-> "bytes", val |-> b]
       \/ \E s \in HexInputs \cup DecimalInputs : value = [kind |-> "text", val |-> s]
       \/ \E n \in U32Inputs : value = [kind |-> "u32", val |-> n]
       \/ \E b \in 0..255 : value = [kind |-> "u8", val |-> <<b>>]
       \/ \E a \in Amounts : value = [kind |-> "balance", val |-> a]
    /\ given = value
    /\ last = NoCall
    /\ calls = 0

DecodeHex ==
    /\ Running /\ value.kind = "text"
    /\ LET r == decode_hex(value.val)
       IN  /\ last' = Call("decode_hex", value.val, r)
           /\ value' = IF r.tag = "Ok" THEN [kind |-> "bytes", val |-> r.val] ELSE value
    /\ UNCHANGED <<given, calls>>

ToBigEndian ==
    /\ Running /\ value.kind = "bytes"
    /\ LET r == to_big_endian(value.val)
       IN  /\ last' = Call("to_big_endian", value.val, Ok(r))
           /\ value' = [kind |-> "bytes", val |-> r]
    /\ UNCHANGED <<given, calls>>

BytesToHex ==
    /\ Running /\ value.kind = "bytes"
    /\ LET r == bytes_to_hex(value.val)
       IN  /\ last' = Call("bytes_to_hex", value.val, Ok(r))
           /\ value' = [kind |-> "text", val |-> r]
    /\ UNCHANGED <<given, calls>>

SwapEndianU32 ==
    /\ Running /\ value.kind = "u32"
    /\ LET r == swap_endian_u32(value.val)
       IN  /\ last' = Call("swap_endian_u32", value.val, Ok(r))
           /\ value' = [kind |-> "bytes", val |-> r]
    /\ UNCHANGED <<given, calls>>

ParseSatoshis ==
    /\ Running /\ value.kind = "text"
    /\ last' = Call("parse_satoshis", value.val, parse_satoshis(value.val))
    /\ UNCHANGED <<value, given, calls>>

ClassifyScript ==
    /\ Running /\ value.kind = "bytes"
    /\ last' = Call("classify_script", value.val, Ok(classify_script(value.val)))
    /\ UNCHANGED <<value, given, calls>>

ReadPushdata ==
    /\ Running /\ value.kind = "bytes"
    /\ LET r == read_pushdata(value.val)
       IN  /\ last' = Call("read_pushdata", value.val, r)
           /\ value' = IF r.tag = "Ok" THEN [kind |-> "bytes", val |-> r.val] ELSE value
    /\ UNCHANGED <<given, calls>>

ApplyFee ==
    /\ Running /\ value.kind = "balance" /\ calls < MaxFeeCalls
    /\ \E fee \in Amounts :
          /\ last' = Call("apply_fee", <<value.val, fee>>, Ok(<<>>))
          /\ value' = [kind |-> "balance", val |-> apply_fee(value.val, fee)]
    /\ calls' = calls + 1
    /\ UNCHANGED given

FromByte ==
    /\ Running /\ value.kind = "u8"
    /\ last' = Call("from_byte", value.val, from_byte(value.val[1]))
    /\ UNCHANGED <<value, given, calls>>

Next ==
    \/ DecodeHex
    \/ ToBigEndian
    \/ BytesToHex
    \/ SwapEndianU32
    \/ ParseSatoshis
    \/ ClassifyScript
    \/ ReadPushdata
    \/ ApplyFee
    \/ FromByte

Spec == Init /\ [][Next]_vars

TypeOK ==
    /\ value.kind \in {"bytes", "text", "u32", "u8", "balance"}
    /\ calls \in 0..MaxFeeCalls

\* ------------------------------------------------------------- properties

\* the sixteen lower-case hex digits '0'..'9', 'a'..'f'
LowerHexDigits == (48..57) \cup (97..102)

\* all hex digits of either case
HexDigits == LowerHexDigits \cup (65..70)

ToLower(c) == IF c \in 65..90 THEN c + 32 ELSE c

\* the number a hex digit stands for, by its place in "0123456789abcdef"
DigitValue(c) == CHOOSE v \in 0..15 : HEX_CHARS_LOWER[v + 1] = ToLower(c)

Called(f) == last.fn = f

\* C1: for every byte sequence b, decode_hex(bytes_to_hex(b)) succeeds and returns b.
C1_RoundTrip ==
    Called("bytes_to_hex") => decode_hex(value.val) = Ok(last.arg)

C1_Witness ==
    /\ Called("bytes_to_hex")
    /\ last.arg = <<0, 10, 169>>
    /\ decode_hex(value.val) = Ok(<<0, 10, 169>>)

\* C2: classify_script never fails and returns P2PKH exactly on the prefix 76 a9 14,
\* otherwise P2WPKH exactly on the prefix 00 14, and Unknown in every other case.
C2_Classify ==
    Called("classify_script") =>
        LET s      == last.arg
            p2pkh  == Len(s) >= 3 /\ s[1] = 118 /\ s[2] = 169 /\ s[3] = 20
            p2wpkh == Len(s) >= 2 /\ s[1] = 0 /\ s[2] = 20
        IN  /\ last.ret.tag = "Ok"
            /\ last.ret.val \in {"P2PKH", "P2WPKH", "Unknown"}
            /\ (last.ret.val = "P2PKH") <=> p2pkh
            /\ (last.ret.val = "P2WPKH") <=> (~p2pkh /\ p2wpkh)
            /\ (last.ret.val = "Unknown") <=> (~p2pkh /\ ~p2wpkh)

C2_Witness ==
    /\ Called("classify_script")
    /\ last.arg = <<118, 169, 20>>
    /\ last.ret.val = "P2PKH"

\* C3: from_byte returns OpChecksig exactly for 0xac, OpDup exactly for 0x76, and for
\* every other byte an error whose message contains "0x" and the byte's two lower-case
\* hex digits; no other opcode is ever returned.
C3_FromByte ==
    Called("from_byte") =>
        LET b == last.arg[1]
            r == last.ret
        IN  /\ (r = Ok("OpChecksig")) <=> (b = 172)
            /\ (r = Ok("OpDup")) <=> (b = 118)
            /\ r.tag = "Ok" => r.val \in {"OpChecksig", "OpDup"}
            /\ b \notin {172, 118} =>
                  /\ r.tag = "Err"
                  /\ \E i \in 1..(Len(r.err) - 3) :
                        /\ r.err[i] = 48 /\ r.err[i + 1] = 120
                        /\ r.err[i + 2] \in LowerHexDigits
                        /\ r.err[i + 3] \in LowerHexDigits
                        /\ 16 * DigitValue(r.err[i + 2]) + DigitValue(r.err[i + 3]) = b

C3_Witness ==
    /\ Called("from_byte")
    /\ last.arg = <<255>>
    /\ last.ret.tag = "Err"

\* a <= b on u64 limbs, most significant limb first
U64Le(a, b) ==
    \/ a = b
    \/ \E i \in 1..4 : a[i] < b[i] /\ \A j \in (i + 1)..4 : a[j] = b[j]

\* a + b on u64 limbs with the carry out of bit 63
RECURSIVE add_carry(_, _, _)
add_carry(a, b, carry) ==
    IF a = <<>> THEN [limbs |-> <<>>, carry |-> carry]
    ELSE LET t    == Head(a) + Head(b) + carry
             rest == add_carry(Tail(a), Tail(b), t \div LimbBase)
         IN  [limbs |-> <<t % LimbBase>> \o rest.limbs, carry |-> rest.carry]

\* C4: apply_fee leaves balance - fee when fee <= balance and 0 when fee > balance,
\* never fails, and the balance never exceeds what it was before the first call.
C4_ApplyFee ==
    Called("apply_fee") =>
        LET before == last.arg[1]
            fee    == last.arg[2]
            after  == value.val
        IN  /\ last.ret.tag = "Ok"
            /\ U64Le(fee, before) => add_carry(after, fee, 0) = [limbs |-> before, carry |-> 0]
            /\ ~U64Le(fee, before) => after = U64Zero
            /\ U64Le(after, before)
            /\ U64Le(after, given.val)

C4_Witness ==
    /\ Called("apply_fee")
    /\ last.arg = <<<<50, 0, 0, 0>>, <<100, 0, 0, 0>>>>
    /\ value.val = U64Zero

\* v div 10 and v mod 10 on u64 limbs
DivTen(v) ==
    LET c4 == v[4]
        c3 == (c4 % 10) * LimbBase + v[3]
        c2 == (c3 % 10) * LimbBase + v[2]
        c1 == (c2 % 10) * LimbBase + v[1]
    IN  [q |-> <<c1 \div 10, c2 \div 10, c3 \div 10, c4 \div 10>>, r |-> c1 % 10]

\* the decimal digits of v, most significant first; empty for zero
RECURSIVE DecimalOf(_)
DecimalOf(v) ==
    IF v = U64Zero THEN <<>>
    ELSE DecimalOf(DivTen(v).q) \o <<48 + DivTen(v).r>>

RECURSIVE StripZeros(_)
StripZeros(s) ==
    IF s # <<>> /\ Head(s) = 48 THEN StripZeros(Tail(s)) ELSE s

IsDigits(s) == \A i \in 1..Len(s) : s[i] \in 48..57

\* a digit string whose value is at most 2^64 - 1
FitsU64(s) ==
    LET d == StripZeros(s)
    IN  \/ Len(d) < Len(MaxDecimal)
        \/ /\ Len(d) = Len(MaxDecimal)
           /\ \/ d = MaxDecimal
              \/ \E i \in 1..Len(d) : d[i] < MaxDecimal[i] /\ \A j \in 1..(i - 1) : d[j] = MaxDecimal[j]

\* the numeral after an optional leading '+'
Unsigned(s) == IF s # <<>> /\ Head(s) = 43 THEN Tail(s) ELSE s

\* C5 as stated: Ok(v) only for a string of decimal digits whose value fits in 64 bits;
\* any character that is not a decimal digit, overflow, or the empty string yields
\* exactly "Invalid satoshi amount".
C5_DigitsOnly ==
    Called("parse_satoshis") =>
        LET s       == last.arg
            numeral == s # <<>> /\ IsDigits(s) /\ FitsU64(s)
        IN  /\ last.ret.tag = "Ok" => numeral /\ DecimalOf(last.ret.val) = StripZeros(s)
            /\ ~numeral => last.ret = Err("Invalid satoshi amount")

\* C5 amended: Ok(v) exactly for a non-empty string of decimal digits, optionally
\* preceded by one '+', whose value v fits in 64 bits; every other input yields
\* exactly "Invalid satoshi amount".
C5_OptionalPlus ==
    Called("parse_satoshis") =>
        LET s       == last.arg
            d       == Unsigned(s)
            numeral == d # <<>> /\ IsDigits(d) /\ FitsU64(d)
        IN  /\ numeral => last.ret.tag = "Ok" /\ DecimalOf(last.ret.val) = StripZeros(d)
            /\ ~numeral => last.ret = Err("Invalid satoshi amount")

C5_Witness ==
    /\ Called("parse_satoshis")
    /\ last.arg = <<43>> \o MaxDecimal
    /\ last.ret = Ok(U64Max)

\* C6: for a script of length n >= 2 read_pushdata returns the n - 2 bytes at indices
\* 2..n-1 in order; for a script of length 0 or 1 it faults instead of returning.
C6_ReadPushdata ==
    Called("read_pushdata") =>
        LET s == last.arg
            n == Len(s)
        IN  IF n >= 2
            THEN /\ last.ret.tag = "Ok"
                 /\ Len(last.ret.val) = n - 2
                 /\ \A i \in 1..(n - 2) : last.ret.val[i] = s[i + 2]
            ELSE last.ret.tag = "Panic"

C6_Witness ==
    /\ Called("read_pushdata")
    /\ last.arg = <<118, 169, 20, 1, 2>>
    /\ last.ret = Ok(<<20, 1, 2>>)

\* C7: decode_hex succeeds exactly on even-length strings of hex digits of either case,
\* returning one byte per digit pair with both cases of a digit the same value;
\* every other string yields an error.
C7_DecodeHex ==
    Called("decode_hex") =>
        LET s     == last.arg
            valid == Len(s) % 2 = 0 /\ \A i \in 1..Len(s) : s[i] \in HexDigits
        IN  IF valid
            THEN /\ last.ret.tag = "Ok"
                 /\ Len(last.ret.val) = Len(s) \div 2
                 /\ \A k \in 1..(Len(s) \div 2) :
                       last.ret.val[k] = 16 * DigitValue(s[2 * k - 1]) + DigitValue(s[2 * k])
            ELSE last.ret.tag = "Err"

C7_Witness ==
    /\ Called("decode_hex")
    /\ last.arg = <<65, 102>>
    /\ last.ret = Ok(<<175>>)

\* C8: to_big_endian(b) has the length n of b and element i equal to b[n-1-i], b itself
\* is left as it was, and applying it twice gives b back.
C8_Reverse ==
    Called("to_big_endian") =>
        LET b == last.arg
            r == last.ret.val
            n == Len(b)
        IN  /\ Len(r) = n
            /\ \A i \in 0..(n - 1) : r[i + 1] = b[(n - 1 - i) + 1]
            /\ value.val = r
            /\ to_big_endian(value.val) = b

C8_Witness ==
    /\ Called("to_big_endian")
    /\ last.arg = <<0, 20, 118>>
    /\ value.val = <<118, 20, 0>>

\* bytes_to_hex emits two lower-case hex digits per byte
LowerCaseOutput ==
    Called("bytes_to_hex") =>
        /\ Len(last.ret.val) = 2 * Len(last.arg)
        /\ \A i \in 1..Len(last.ret.val) : last.ret.val[i] \in LowerHexDigits

\* C9 as stated: bytes_to_hex emits two lower-case digits per byte, and for every
\* string s that decode_hex accepts, bytes_to_hex(decode_hex(s)) = s.
C9_InverseExact ==
    /\ LowerCaseOutput
    /\ (Called("decode_hex") /\ last.ret.tag = "Ok") =>
          bytes_to_hex(last.ret.val) = last.arg

\* C9 amended: bytes_to_hex emits two lower-case digits per byte, and for every string
\* s that decode_hex accepts, bytes_to_hex(decode_hex(s)) is s with its upper-case
\* digits put in lower case (so it is s itself exactly when s has no upper-case digit).
C9_InverseLowerCase ==
    /\ LowerCaseOutput
    /\ (Called("decode_hex") /\ last.ret.tag = "Ok") =>
          LET s    == last.arg
              back == bytes_to_hex(last.ret.val)
          IN  /\ back = [i \in 1..Len(s) |-> ToLower(s[i])]
              /\ (back = s) <=> (\A i \in 1..Len(s) : s[i] \notin 65..70)

C9_Witness ==
    /\ Called("decode_hex")
    /\ last.arg = <<65, 70>>
    /\ bytes_to_hex(last.ret.val) = <<97, 102>>

\* C10: swap_endian_u32(n) is the four bytes of n in little-endian order: the bytes
\* b0..b3 satisfy n = b0 + 256 b1 + 256^2 b2 + 256^3 b3.
C10_LittleEndian ==
    Called("swap_endian_u32") =>
        LET n == last.arg
            b == last.ret.val
        IN  /\ Len(b) = 4
            /\ \A i \in 1..4 : b[i] \in 0..255
            /\ b[1] + 256 * b[2] = n[1]
            /\ b[3] + 256 * b[4] = n[2]

C10_Witness ==
    /\ Called("swap_endian_u32")
    /\ last.arg = <<4660, 43981>>
    /\ last.ret.val = <<52, 18, 205, 171>>

====
